---- MODULE Spec2Model ----
(***************************************************************************)
(* transform_pricing_data of streamlit_app.py as a state machine.          *)
(*                                                                         *)
(* A worksheet is a sequence of column names and a sequence of rows, each  *)
(* row a function from column name to cell.  A cell is a record            *)
(*   [k |-> kind, s |-> text, n |-> numbers]                               *)
(* with kind "str" (a Python str), "num" (a float, n[1] in tenths),        *)
(* "int" (an integer), "date" (a Timestamp, n = <<year, month, day>>) or   *)
(* "nan" (NaN / NaT / <NA>).  The text of an Age cell is kept as its       *)
(* tokens in n: a run of digits is the number it spells, a hyphen is Dash, *)
(* anything else is Junk.                                                  *)
(***************************************************************************)
EXTENDS Integers, Sequences, FiniteSets, TLC

VARIABLES
    sheet,              \* the worksheet as read from the upload (never written)
    columns,            \* input_df.columns
    input_df,           \* the rows of input_df (forward-filled in place)
    option_names,       \* input_df.columns[1:-4]
    opt_idx,            \* position of the outer loop in option_names
    row_idx,            \* position of the inner loop in input_df
    row_count,          \* rows processed for the current option
    age_from, age_to,   \* locals of the inner loop
    premium,            \* the rounded premium of the row being processed
    invoice_component,  \* its classification
    output_data,        \* the list of output rows
    df_output,          \* the returned DataFrame
    pc,                 \* position in transform_pricing_data
    err                 \* the exception raised, "" if none

vars == <<sheet, columns, input_df, option_names, opt_idx, row_idx, row_count,
          age_from, age_to, premium, invoice_component, output_data,
          df_output, pc, err>>

(***************************************************************************)
(* Program constants.                                                      *)
(***************************************************************************)
DependentRows == 7
IndependentAgeMin == 18
IndependentAgeMax == 23
LeadingColumns == 1
TrailingColumns == 4
Dash == 0 - 1
Junk == 0 - 2

MetaColumns == <<"PlanCode", "RateZone", "DateFrom", "DateTo">>
MetaSet == {"PlanCode", "RateZone", "DateFrom", "DateTo"}
output_columns == <<"PlanCode", "RateZone", "AgeFrom", "AgeTo", "InvoiceComponent",
                    "Annual", "Renewal", "Transfer", "OptionName", "DateFrom", "DateTo">>

(***************************************************************************)
(* Cells.                                                                  *)
(***************************************************************************)
Str(x) == [k |-> "str", s |-> x, n |-> <<>>]
Text(x, toks) == [k |-> "str", s |-> x, n |-> toks]
Num(v) == [k |-> "num", s |-> "", n |-> <<v>>]
Whole(i) == [k |-> "int", s |-> "", n |-> <<i>>]
Date(y, m, d) == [k |-> "date", s |-> "", n |-> <<y, m, d>>]
NaN == [k |-> "nan", s |-> "", n |-> <<>>]
Empty == Str("")

isna(c) == c.k = "nan"

Range(f) == {f[i] : i \in DOMAIN f}

RECURSIVE Concat(_)
Concat(ss) == IF ss = <<>> THEN <<>> ELSE Head(ss) \o Concat(Tail(ss))

(***************************************************************************)
(* Series.ffill (lines 12-15): row i of column c takes the value of the    *)
(* last row at or before i whose cell is not missing, and stays missing    *)
(* when there is none.                                                     *)
(***************************************************************************)
\* A fill that carries nothing down the column.
ffill_none(rows, c, last) == rows

RECURSIVE ffill(_, _, _)
ffill(rows, c, last) ==
    IF rows = <<>> THEN <<>>
    ELSE LET cur == IF isna(Head(rows)[c]) THEN last ELSE Head(rows)[c]
         IN  <<[Head(rows) EXCEPT ![c] = cur]>> \o ffill(Tail(rows), c, cur)

(***************************************************************************)
(* columns[1:-4] (line 21), as Python slices a sequence of any length.     *)
(***************************************************************************)
slice_options(cols) ==
    IF Len(cols) - TrailingColumns > LeadingColumns
    THEN SubSeq(cols, LeadingColumns + 1, Len(cols) - TrailingColumns)
    ELSE <<>>

(***************************************************************************)
(* Lines 28-34: "-" in age_str, age_str.split("-"), int(...).              *)
(***************************************************************************)
RECURSIVE split(_)
split(toks) ==
    IF \A i \in DOMAIN toks : toks[i] # Dash THEN <<toks>>
    ELSE LET p == CHOOSE i \in DOMAIN toks :
                      toks[i] = Dash /\ \A j \in 1..(i - 1) : toks[j] # Dash
         IN  <<SubSeq(toks, 1, p - 1)>> \o split(SubSeq(toks, p + 1, Len(toks)))

is_int(part) == Len(part) = 1 /\ part[1] >= 0

age_tokens(cell) == IF cell.k = "str" THEN cell.n
                    ELSE IF cell.k = "int" THEN cell.n
                    ELSE <<Junk>>

parse_age(cell) ==
    LET toks == age_tokens(cell)
        parts == split(toks)
    IN  IF \E i \in DOMAIN toks : toks[i] = Dash
        THEN IF Len(parts) = 2 /\ is_int(parts[1]) /\ is_int(parts[2])
             THEN [ok |-> TRUE, from |-> parts[1][1], to |-> parts[2][1]]
             ELSE [ok |-> FALSE, from |-> 0, to |-> 0]
        ELSE IF is_int(toks)
             THEN [ok |-> TRUE, from |-> toks[1], to |-> toks[1]]
             ELSE [ok |-> FALSE, from |-> 0, to |-> 0]

(***************************************************************************)
(* np.round (line 44) of a float given in tenths: to the nearest integer,  *)
(* a tie going to the even neighbour.                                      *)
(***************************************************************************)
\* Rounding that sends every tie upwards.
np_round_half_up(v) == (v + 5) \div 10

np_round(v) ==
    LET q == v \div 10
        r == v % 10
    IN  IF r < 5 THEN q
        ELSE IF r > 5 THEN q + 1
        ELSE IF q % 2 = 0 THEN q ELSE q + 1

round_premium(cell) == IF cell.k = "int" THEN cell.n[1] ELSE np_round(cell.n[1])

(***************************************************************************)
(* Lines 49-51.                                                            *)
(***************************************************************************)
\* The comparison off by one.
classify_late(count) ==
    IF count <= DependentRows THEN "Member Dependent" ELSE "Member Premium"

classify(count) ==
    IF count < DependentRows THEN "Member Dependent" ELSE "Member Premium"

(***************************************************************************)
(* Line 56.                                                                *)
(***************************************************************************)
\* The window without its upper end.
explodes_narrow(component, from) ==
    component = "Member Premium"
        \/ (IndependentAgeMin <= from /\ from < IndependentAgeMax)

explodes(component, from) ==
    component = "Member Premium"
        \/ (IndependentAgeMin <= from /\ from <= IndependentAgeMax)

(***************************************************************************)
(* Lines 58-61 and 63-66: one output row.                                  *)
(***************************************************************************)
out_row(row, from, to, component, prem, option) ==
    [PlanCode |-> row["PlanCode"], RateZone |-> row["RateZone"],
     AgeFrom |-> Whole(from), AgeTo |-> Whole(to),
     InvoiceComponent |-> Str(component),
     Annual |-> Whole(prem), Renewal |-> Whole(prem), Transfer |-> Whole(prem),
     OptionName |-> Str(option),
     DateFrom |-> row["DateFrom"], DateTo |-> row["DateTo"]]

emitted(row, from, to, component, prem, option) ==
    IF explodes(component, from)
    THEN [a \in 1..(IF to >= from THEN to - from + 1 ELSE 0) |->
             out_row(row, from + a - 1, from + a - 1, component, prem, option)]
    ELSE <<out_row(row, from, to, component, prem, option)>>

(***************************************************************************)
(* Line 69: [""] * 11.                                                     *)
(***************************************************************************)
divider_row == [f \in Range(output_columns) |-> Empty]

(***************************************************************************)
(* Lines 77-85 on one row of the DataFrame.                                *)
(***************************************************************************)
to_numeric(c) == IF c.k \in {"int", "num"} THEN c ELSE NaN

strftime(c) ==
    IF c.k = "date"
    THEN [k |-> "str", s |-> "m/d/Y", n |-> <<c.n[2], c.n[3], c.n[1]>>]
    ELSE NaN

post_row(r) ==
    LET af == to_numeric(r.AgeFrom)
    IN  [r EXCEPT !.AgeFrom = af,
                  !.AgeTo = to_numeric(r.AgeTo),
                  !.InvoiceComponent = IF isna(af) THEN Empty ELSE @,
                  !.DateFrom = strftime(@),
                  !.DateTo = strftime(@)]

(***************************************************************************)
(* Worksheets.  A worksheet is [columns, rows]; four bounded families of   *)
(* worksheets are read: long sheets for the positional rule, short sheets  *)
(* with varied ages and premiums, short sheets with sparse metadata, and   *)
(* short sheets with varied column layouts.                                *)
(***************************************************************************)
MaxFill == 7
MaxTail == 2
MaxValueRows == 2
MaxMetaRows == 3
MaxLayoutRows == 1

Options1 == <<"$500">>
Options2 == <<"$500", "$1000">>
StdColumns(opts) == <<"Age">> \o opts \o MetaColumns

NoMeta == <<NaN, NaN, NaN, NaN>>
MetaA == <<Str("A"), Str("Z1"), Date(2024, 3, 1), Date(2024, 12, 31)>>
MetaB == <<Str("B"), NaN, Date(2025, 11, 15), NaN>>

MkRow(cols, age, p500, p1000, meta) ==
    [c \in Range(cols) |->
        CASE c = "Age" -> age
          [] c = "$500" -> p500
          [] c = "$1000" -> p1000
          [] c = "PlanCode" -> meta[1]
          [] c = "RateZone" -> meta[2]
          [] c = "DateFrom" -> meta[3]
          [] c = "DateTo" -> meta[4]]

Age30 == Text("30", <<30>>)
Age18to19 == Text("18-19", <<18, Dash, 19>>)
Age23to24 == Text("23-24", <<23, Dash, 24>>)
Age17to18 == Text("17-18", <<17, Dash, 18>>)
Age24to25 == Text("24-25", <<24, Dash, 25>>)
AgeJunk == Text("x", <<Junk>>)
AgeThree == Text("1-2-3", <<1, Dash, 2, Dash, 3>>)
AgeMinus == Text("-5", <<Dash, 5>>)

SeqsUpTo(S, n) == UNION {[1..m -> S] : m \in 0..n}

\* Long sheets: up to MaxFill plain rows, then up to MaxTail varied rows.
FillRow(cols) == MkRow(cols, Age30, Num(4500), Num(9000), NoMeta)
TailRows(cols) ==
    {MkRow(cols, a, Num(4500), Num(9000), NoMeta) :
        a \in {Age30, Age18to19, Age23to24, Age17to18, Age24to25, AgeJunk}}
    \cup {MkRow(cols, Age30, NaN, Num(9000), NoMeta),
          MkRow(cols, Age30, Num(4500), NaN, NoMeta)}
LongSheets ==
    {[columns |-> cols, rows |-> [i \in 1..k |-> FillRow(cols)] \o t] :
        cols \in {StdColumns(Options1), StdColumns(Options2)},
        k \in 0..MaxFill,
        t \in SeqsUpTo(TailRows(StdColumns(Options2)), MaxTail)}

\* Short sheets (one option) with varied ages and premiums.
ValueRows ==
    LET cols == StdColumns(Options1)
    IN  {MkRow(cols, Age30, p, NaN, NoMeta) :
            p \in {Num(9000), Num(4504), Num(4505), Num(4515), Num(4506),
                   Whole(905), NaN, Str("n/a")}}
        \cup {MkRow(cols, a, Num(9000), NaN, NoMeta) :
                 a \in {AgeJunk, AgeThree, AgeMinus, Whole(41)}}
ValueSheets ==
    {[columns |-> StdColumns(Options1), rows |-> t] :
        t \in SeqsUpTo(ValueRows, MaxValueRows)}

\* Short sheets (two options) with sparse metadata.
MetaRows ==
    LET cols == StdColumns(Options2)
    IN  {MkRow(cols, a, Num(4505), Num(9000), m) :
            a \in {Age30, Age18to19}, m \in {NoMeta, MetaA, MetaB}}
MetaSheets ==
    {[columns |-> StdColumns(Options2), rows |-> t] :
        t \in SeqsUpTo(MetaRows, MaxMetaRows)}

\* Short sheets whose columns are not Age, options, metadata.
Layouts ==
    {<<"Age">> \o MetaColumns,
     <<"Age", "$500">>,
     <<"Age", "$500", "$1000">>,
     <<"Age", "$500", "PlanCode", "RateZone">>,
     MetaColumns \o <<"Age", "$500">>,
     <<"PlanCode", "Age", "$500", "RateZone", "DateFrom", "DateTo">>,
     <<"$500", "$1000">> \o MetaColumns}
LayoutRows(cols) ==
    {MkRow(cols, Age30, Num(4500), Num(9000), NoMeta),
     MkRow(cols, Age18to19, Num(4505), NaN, MetaA),
     MkRow(cols, AgeJunk, Num(4500), Num(9000), NoMeta)}
LayoutSheets ==
    UNION {{[columns |-> cols, rows |-> t] :
               t \in SeqsUpTo(LayoutRows(cols), MaxLayoutRows)} : cols \in Layouts}

Sheets == LongSheets \cup ValueSheets \cup MetaSheets \cup LayoutSheets

(***************************************************************************)
(* The state on entry to transform_pricing_data (line 109).                *)
(***************************************************************************)
Init ==
    /\ sheet \in Sheets
    /\ columns = sheet.columns
    /\ input_df = sheet.rows
    /\ option_names = <<>>
    /\ opt_idx = 0
    /\ row_idx = 0
    /\ row_count = 0
    /\ age_from = 0
    /\ age_to = 0
    /\ premium = NaN
    /\ invoice_component = ""
    /\ output_data = <<>>
    /\ df_output = <<>>
    /\ pc = "ffill"
    /\ err = ""

\* Lines 12-15: each read of a metadata column raises KeyError when absent.
FillMetadata ==
    /\ pc = "ffill"
    /\ IF MetaSet \subseteq Range(columns)
       THEN /\ input_df' = ffill(ffill(ffill(ffill(input_df,
                               "PlanCode", NaN), "RateZone", NaN),
                               "DateFrom", NaN), "DateTo", NaN)
            /\ pc' = "options"
            /\ err' = err
       ELSE /\ input_df' = input_df
            /\ pc' = "error"
            /\ err' = "KeyError"
    /\ UNCHANGED <<sheet, columns, option_names, opt_idx, row_idx, row_count,
                   age_from, age_to, premium, invoice_component, output_data,
                   df_output>>

\* Lines 18-21.
ExtractOptions ==
    /\ pc = "options"
    /\ output_data' = <<>>
    /\ option_names' = slice_options(columns)
    /\ opt_idx' = 0
    /\ pc' = "for_option"
    /\ UNCHANGED <<sheet, columns, input_df, row_idx, row_count, age_from, age_to,
                   premium, invoice_component, df_output, err>>

\* Lines 24-25: the next option, with its counter reset, or the end of the loop.
NextOption ==
    /\ pc = "for_option"
    /\ IF opt_idx < Len(option_names)
       THEN /\ opt_idx' = opt_idx + 1
            /\ row_count' = 0
            /\ row_idx' = 0
            /\ pc' = "for_row"
       ELSE /\ pc' = "post"
            /\ UNCHANGED <<opt_idx, row_count, row_idx>>
    /\ UNCHANGED <<sheet, columns, input_df, option_names, age_from, age_to,
                   premium, invoice_component, output_data, df_output, err>>

\* The counter advanced before the premium is looked at.
NextRowCounting ==
    /\ pc = "for_row"
    /\ IF row_idx < Len(input_df)
       THEN LET row == input_df[row_idx + 1]
                option == option_names[opt_idx]
                age == parse_age(row["Age"])
                cell == row[option]
            IN  /\ row_idx' = row_idx + 1
                /\ IF "Age" \notin DOMAIN row
                   THEN /\ pc' = "error"
                        /\ err' = "KeyError"
                        /\ UNCHANGED <<age_from, age_to, premium,
                                       invoice_component, row_count>>
                   ELSE IF ~age.ok
                   THEN /\ pc' = "error"
                        /\ err' = "ValueError"
                        /\ UNCHANGED <<age_from, age_to, premium,
                                       invoice_component, row_count>>
                   ELSE /\ age_from' = age.from
                        /\ age_to' = age.to
                        /\ IF isna(cell)
                           THEN /\ premium' = cell
                                /\ pc' = "for_row"
                                /\ row_count' = row_count + 1
                                /\ UNCHANGED <<invoice_component, err>>
                           ELSE IF cell.k \notin {"num", "int"}
                           THEN /\ premium' = cell
                                /\ pc' = "error"
                                /\ err' = "TypeError"
                                /\ UNCHANGED <<invoice_component, row_count>>
                           ELSE /\ premium' = Whole(round_premium(cell))
                                /\ invoice_component' = classify(row_count)
                                /\ row_count' = row_count + 1
                                /\ pc' = "emit"
                                /\ err' = err
       ELSE /\ pc' = "divider"
            /\ UNCHANGED <<row_idx, age_from, age_to, premium, invoice_component,
                           row_count, err>>
    /\ UNCHANGED <<sheet, columns, input_df, option_names, opt_idx, output_data,
                   df_output>>

\* Lines 27-53: the next row of the table, up to its classification.
NextRow ==
    /\ pc = "for_row"
    /\ IF row_idx < Len(input_df)
       THEN LET row == input_df[row_idx + 1]
                option == option_names[opt_idx]
                age == parse_age(row["Age"])
                cell == row[option]
            IN  /\ row_idx' = row_idx + 1
                /\ IF "Age" \notin DOMAIN row
                   THEN /\ pc' = "error"
                        /\ err' = "KeyError"
                        /\ UNCHANGED <<age_from, age_to, premium,
                                       invoice_component, row_count>>
                   ELSE IF ~age.ok
                   THEN /\ pc' = "error"
                        /\ err' = "ValueError"
                        /\ UNCHANGED <<age_from, age_to, premium,
                                       invoice_component, row_count>>
                   ELSE /\ age_from' = age.from
                        /\ age_to' = age.to
                        /\ IF isna(cell)
                           THEN /\ premium' = cell
                                /\ pc' = "for_row"
                                /\ UNCHANGED <<invoice_component, row_count, err>>
                           ELSE IF cell.k \notin {"num", "int"}
                           THEN /\ premium' = cell
                                /\ pc' = "error"
                                /\ err' = "TypeError"
                                /\ UNCHANGED <<invoice_component, row_count>>
                           ELSE /\ premium' = Whole(round_premium(cell))
                                /\ invoice_component' = classify(row_count)
                                /\ row_count' = row_count + 1
                                /\ pc' = "emit"
                                /\ err' = err
       ELSE /\ pc' = "divider"
            /\ UNCHANGED <<row_idx, age_from, age_to, premium, invoice_component,
                           row_count, err>>
    /\ UNCHANGED <<sheet, columns, input_df, option_names, opt_idx, output_data,
                   df_output>>

\* Lines 55-66: the output rows of the row just classified.
Emit ==
    /\ pc = "emit"
    /\ output_data' = output_data \o
           emitted(input_df[row_idx], age_from, age_to, invoice_component,
                   premium.n[1], option_names[opt_idx])
    /\ pc' = "for_row"
    /\ UNCHANGED <<sheet, columns, input_df, option_names, opt_idx, row_idx,
                   row_count, age_from, age_to, premium, invoice_component,
                   df_output, err>>

\* A divider between blocks only, none after the last.
AppendDividerBetween ==
    /\ pc = "divider"
    /\ output_data' = IF opt_idx < Len(option_names)
                      THEN Append(output_data, divider_row)
                      ELSE output_data
    /\ pc' = "for_option"
    /\ UNCHANGED <<sheet, columns, input_df, option_names, opt_idx, row_idx,
                   row_count, age_from, age_to, premium, invoice_component,
                   df_output, err>>

\* Line 69.
AppendDivider ==
    /\ pc = "divider"
    /\ output_data' = Append(output_data, divider_row)
    /\ pc' = "for_option"
    /\ UNCHANGED <<sheet, columns, input_df, option_names, opt_idx, row_idx,
                   row_count, age_from, age_to, premium, invoice_component,
                   df_output, err>>

\* Lines 71-87.
PostProcess ==
    /\ pc = "post"
    /\ df_output' = [i \in DOMAIN output_data |-> post_row(output_data[i])]
    /\ pc' = "done"
    /\ UNCHANGED <<sheet, columns, input_df, option_names, opt_idx, row_idx,
                   row_count, age_from, age_to, premium, invoice_component,
                   output_data, err>>

Next ==
    \/ FillMetadata
    \/ ExtractOptions
    \/ NextOption
    \/ NextRow
    \/ Emit
    \/ AppendDivider
    \/ PostProcess

Spec == Init /\ [][Next]_vars

(***************************************************************************)
(* What the specification says of a worksheet, stated on the worksheet as  *)
(* read (sheet), without the transformer's own operators.                  *)
(***************************************************************************)
Max(S) == CHOOSE x \in S : \A y \in S : y <= x
Abs(x) == IF x < 0 THEN 0 - x ELSE x

NamedOptions(cols) == SelectSeq(cols, LAMBDA c : c \notin ({"Age"} \cup MetaSet))

Present(i, o) == ~isna(sheet.rows[i][o])
Rank(i, o) == Cardinality({j \in 1..i : Present(j, o)})
ClaimComponent(i, o) ==
    IF Rank(i, o) <= DependentRows THEN "Member Dependent" ELSE "Member Premium"
ClaimExplodes(i, o, from) ==
    ClaimComponent(i, o) = "Member Premium"
        \/ from \in IndependentAgeMin..IndependentAgeMax

Filled(i, c) ==
    LET S == {j \in 1..i : ~isna(sheet.rows[j][c])}
    IN  IF S = {} THEN NaN ELSE sheet.rows[Max(S)][c]
MonthDayYear(c) ==
    IF isna(c) THEN NaN
    ELSE [k |-> "str", s |-> "m/d/Y", n |-> <<c.n[2], c.n[3], c.n[1]>>]

Nearest(v) ==
    LET C == (v \div 10)..((v \div 10) + 1)
    IN  {z \in C : \A w \in C : Abs(10 * z - v) <= Abs(10 * w - v)}
TiesEven(v) == CHOOSE z \in Nearest(v) : Cardinality(Nearest(v)) = 1 \/ z % 2 = 0
TiesAway(v) ==
    CHOOSE z \in Nearest(v) : \A w \in Nearest(v) : Abs(w) <= Abs(z)
ClaimPremium(i, o, ties) ==
    LET c == sheet.rows[i][o]
    IN  IF c.k = "int" THEN c.n[1]
        ELSE IF ties = "even" THEN TiesEven(c.n[1]) ELSE TiesAway(c.n[1])

ClaimRow(i, o, from, to, ties) ==
    [PlanCode |-> Filled(i, "PlanCode"), RateZone |-> Filled(i, "RateZone"),
     AgeFrom |-> Whole(from), AgeTo |-> Whole(to),
     InvoiceComponent |-> Str(ClaimComponent(i, o)),
     Annual |-> Whole(ClaimPremium(i, o, ties)),
     Renewal |-> Whole(ClaimPremium(i, o, ties)),
     Transfer |-> Whole(ClaimPremium(i, o, ties)),
     OptionName |-> Str(o),
     DateFrom |-> MonthDayYear(Filled(i, "DateFrom")),
     DateTo |-> MonthDayYear(Filled(i, "DateTo"))]

ClaimRows(i, o, ties) ==
    LET a == parse_age(sheet.rows[i]["Age"])
    IN  IF ~Present(i, o) THEN <<>>
        ELSE IF ClaimExplodes(i, o, a.from)
        THEN [x \in 1..(a.to - a.from + 1) |->
                 ClaimRow(i, o, a.from + x - 1, a.from + x - 1, ties)]
        ELSE <<ClaimRow(i, o, a.from, a.to, ties)>>

ClaimBlock(o, upto, ties) == Concat([i \in 1..upto |-> ClaimRows(i, o, ties)])

ClaimDivider == [f \in Range(output_columns) |-> NaN]
IsDivider(r) == r.OptionName \in {Empty, NaN}
IsBlank(r) == \A f \in Range(output_columns) : r[f] \in {Empty, NaN}

ClaimTable(opts, ties) ==
    Concat([q \in 1..Len(opts) |->
               ClaimBlock(opts[q], Len(sheet.rows), ties) \o <<ClaimDivider>>])

NonDividers(t) == SelectSeq(t, LAMBDA r : ~IsDivider(r))
Project(t, fields) == [i \in DOMAIN t |-> [f \in fields |-> t[i][f]]]

\* The rows appended for the option being pivoted, and the rows of the
\* table the inner loop has finished with.
CurrentBlock ==
    LET D == {i \in DOMAIN output_data : IsDivider(output_data[i])}
    IN  SubSeq(output_data, IF D = {} THEN 1 ELSE Max(D) + 1, Len(output_data))
InBlock == pc \in {"for_row", "emit", "divider"}
RowsDone == IF pc = "emit" THEN row_idx - 1 ELSE row_idx
Option == option_names[opt_idx]

(***************************************************************************)
(* C1.  Within each option's block the processed source rows (premium      *)
(* present) are classified by their position among the processed rows of   *)
(* that option: the first DependentRows are "Member Dependent", the rest   *)
(* "Member Premium".  The counter equals the number of processed rows of   *)
(* the current option so far: it restarts with every option, skipped rows  *)
(* and exploded age rows do not move it.                                   *)
(***************************************************************************)
C1_PositionalClassification ==
    InBlock =>
        /\ row_count = Rank(row_idx, Option)
        /\ (pc = "emit" => invoice_component = ClaimComponent(row_idx, Option))
        /\ Project(CurrentBlock, {"InvoiceComponent"})
               = Project(ClaimBlock(Option, RowsDone, "even"), {"InvoiceComponent"})

\* The 8th processed row of the second option, after a skipped row, is a
\* "Member Premium".
C1_Witness ==
    /\ pc = "emit"
    /\ opt_idx = 2
    /\ row_count = DependentRows + 1
    /\ invoice_component = "Member Premium"
    /\ \E j \in 1..row_idx : ~Present(j, Option)

(***************************************************************************)
(* C2.  A processed row that is "Member Premium", or "Member Dependent"    *)
(* with 18 <= AgeFrom <= 23, yields one output row per age of its range,   *)
(* ascending, each with AgeFrom = AgeTo; any other processed row yields    *)
(* one output row with its range.  The block of an option is the           *)
(* concatenation of these, so its length is the sum of the factors.        *)
(***************************************************************************)
C2_Explosion ==
    InBlock =>
        Project(CurrentBlock, {"AgeFrom", "AgeTo"})
            = Project(ClaimBlock(Option, RowsDone, "even"), {"AgeFrom", "AgeTo"})

\* A block holding a dependent row kept as a range and a premium row that
\* was exploded.
C2_Witness ==
    /\ pc = "for_row"
    /\ \E i \in DOMAIN CurrentBlock :
           /\ CurrentBlock[i].InvoiceComponent = Str("Member Dependent")
           /\ CurrentBlock[i].AgeFrom # CurrentBlock[i].AgeTo
    /\ invoice_component = "Member Premium"
    /\ age_from < age_to
    /\ CurrentBlock[Len(CurrentBlock)].AgeFrom = Whole(age_to)
    /\ CurrentBlock[Len(CurrentBlock) - 1].AgeTo = Whole(age_from)

(***************************************************************************)
(* C3.  The returned table is, option by option in the order of            *)
(* option_names, the rows of that option in input row order followed by    *)
(* exactly one divider, whose every field is empty or null.                *)
(***************************************************************************)
C3_BlocksAndDividers ==
    pc = "done" =>
        LET claimed == ClaimTable(option_names, "even")
            shape == {"OptionName", "AgeFrom", "AgeTo", "InvoiceComponent"}
        IN  /\ Len(df_output) = Len(claimed)
            /\ \A i \in DOMAIN claimed :
                   i \in DOMAIN df_output =>
                       IF IsDivider(claimed[i])
                       THEN IsBlank(df_output[i])
                       ELSE [f \in shape |-> df_output[i][f]]
                                = [f \in shape |-> claimed[i][f]]

\* Two options, the first with rows and the second with none: the table
\* ends with the first block's divider and the empty block's divider.
C3_Witness ==
    /\ pc = "done"
    /\ Len(option_names) = 2
    /\ Len(df_output) > 2
    /\ IsBlank(df_output[Len(df_output)])
    /\ IsBlank(df_output[Len(df_output) - 1])
    /\ ~IsBlank(df_output[1])

(***************************************************************************)
(* C4.  A table without the four metadata columns is transformed without   *)
(* error, and every output row has empty strings in the metadata fields.   *)
(***************************************************************************)
C4_NoMetadataIsLegal ==
    (Range(columns) \cap MetaSet = {}) =>
        /\ pc # "error"
        /\ pc = "done" =>
               \A i \in DOMAIN df_output : \A c \in MetaSet : df_output[i][c] = Empty

(***************************************************************************)
(* C5.  A table with a row whose Age is neither an integer nor an          *)
(* integer-hyphen-integer pair never yields an output table.               *)
(***************************************************************************)
Malformed(i) ==
    "Age" \in DOMAIN sheet.rows[i] /\ ~parse_age(sheet.rows[i]["Age"]).ok
C5_MalformedAgeAborts ==
    (\E i \in DOMAIN sheet.rows : Malformed(i)) => pc # "done"

(***************************************************************************)
(* C6.  A table with no deductible-option column, or without the Age       *)
(* column, never yields an output table.                                   *)
(***************************************************************************)
C6_SchemaError ==
    (NamedOptions(columns) = <<>> \/ "Age" \notin Range(columns)) => pc # "done"

(***************************************************************************)
(* C7.  Every non-divider row of the returned table carries, for each      *)
(* metadata column, the nearest non-missing value at or before its source  *)
(* row in the table as read (dates in month/day/year form), or a missing   *)
(* value when there is none; rows exploded from one source row, and the    *)
(* rows of one source row under different options, carry the same.         *)
(***************************************************************************)
C7_ForwardFill ==
    pc = "done" =>
        Project(NonDividers(df_output), MetaSet)
            = Project(NonDividers(ClaimTable(option_names, "even")), MetaSet)

\* Three source rows: metadata missing, then given, then missing again.
C7_Witness ==
    /\ pc = "done"
    /\ Len(sheet.rows) = 3
    /\ isna(sheet.rows[1]["PlanCode"])
    /\ sheet.rows[2]["PlanCode"] = Str("A")
    /\ isna(sheet.rows[3]["PlanCode"])
    /\ Len(NonDividers(df_output)) >= 3
    /\ isna(df_output[1].PlanCode)
    /\ df_output[Len(df_output) - 1].PlanCode = Str("A")
    /\ df_output[Len(df_output) - 1].RateZone = Str("Z1")
    /\ df_output[Len(df_output) - 1].DateFrom = MonthDayYear(Date(2024, 3, 1))

(***************************************************************************)
(* C8.  The options pivoted are the columns not named Age, PlanCode,       *)
(* RateZone, DateFrom or DateTo, in column order, whatever the layout.     *)
(***************************************************************************)
C8_OptionsByName ==
    pc \in {"for_option", "for_row", "emit", "divider", "post", "done"} =>
        option_names = NamedOptions(columns)

(***************************************************************************)
(* C9.  Processing a (row, option) pair whose premium is missing appends   *)
(* nothing to the output and leaves the option's counter as it was.        *)
(***************************************************************************)
SkipsRow ==
    /\ pc = "for_row"
    /\ row_idx < Len(input_df)
    /\ "Age" \in DOMAIN input_df[row_idx + 1]
    /\ isna(input_df[row_idx + 1][Option])
C9_SkipChangesNothing ==
    [][SkipsRow => (output_data' = output_data /\ row_count' = row_count)]_vars

\* A row has just been skipped after others were processed and emitted.
C9_Witness ==
    /\ pc = "for_row"
    /\ row_idx > 1
    /\ ~Present(row_idx, Option)
    /\ row_count > 0
    /\ row_count < row_idx
    /\ CurrentBlock # <<>>

(***************************************************************************)
(* C10.  As claimed: Annual, Renewal and Transfer of every non-divider row *)
(* hold the source premium rounded to the nearest integer, a tie going     *)
(* away from zero.                                                         *)
(***************************************************************************)
Premiums == {"Annual", "Renewal", "Transfer"}
C10_TiesAwayFromZero ==
    pc = "done" =>
        Project(NonDividers(df_output), Premiums)
            = Project(NonDividers(ClaimTable(option_names, "away")), Premiums)

(***************************************************************************)
(* C10, amended.  Annual, Renewal and Transfer of every non-divider row    *)
(* hold the source premium rounded to the nearest integer, a tie going to  *)
(* the even neighbour; an integer premium is unchanged.                    *)
(***************************************************************************)
C10_TiesToEven ==
    pc = "done" =>
        Project(NonDividers(df_output), Premiums)
            = Project(NonDividers(ClaimTable(option_names, "even")), Premiums)

\* 450.5 came out as 450 and 451.5 as 452.
C10_Witness ==
    /\ pc = "done"
    /\ option_names = Options1
    /\ \E i \in DOMAIN sheet.rows : sheet.rows[i]["$500"] = Num(4505)
    /\ \E i \in DOMAIN sheet.rows : sheet.rows[i]["$500"] = Num(4515)
    /\ \E i \in DOMAIN df_output : df_output[i].Annual = Whole(450)
    /\ \E i \in DOMAIN df_output : df_output[i].Transfer = Whole(452)

====
